---- MODULE Spec2Model ----
(***************************************************************************)
(* Model of ecdlp.py: the naive elliptic-curve discrete-log solver for     *)
(* curves Y^2 = X^3 + A*X + B over the prime field F_p.                     *)
(*                                                                         *)
(* Python values are modelled as tagged records: an integer n is IntV(n),   *)
(* None is the record None, and a raised exception is the record named     *)
(* after it.  A point is a pair <<x, y>> of such values; the point at      *)
(* infinity is <<None, None>>.  A call that does not return because an     *)
(* exception propagates out of it yields Raise(exception).                 *)
(*                                                                         *)
(* The quotient num / den of slope's last branch is only taken when den    *)
(* divides num, so it is exact; Python compares numbers by value, so the   *)
(* model keeps the numeric value of that quotient.                         *)
(***************************************************************************)
EXTENDS Integers, Sequences, FiniteSets, TLC

\* ---------------------------------------------------------------- bounds
MaxP == 7          \* primes p <= MaxP are explored
MaxN == 6          \* scalars 0..MaxN are passed to multiply
MaxA == 7          \* integers -MaxA..MaxA are passed to gcd / modular_inverse

IsPrime(q) == q > 1 /\ \A d \in 2..(q - 1) : q % d # 0
Primes == {q \in 2..MaxP : IsPrime(q)}

\* ---------------------------------------------------------------- values
None == [t |-> "None", v |-> 0]
ZeroDivisionError == [t |-> "ZeroDivisionError", v |-> 0]
TypeError == [t |-> "TypeError", v |-> 0]
IntV(i) == [t |-> "int", v |-> i]

IsInt(val) == val.t = "int"
IsExc(val) == val.t \in {"ZeroDivisionError", "TypeError"}

\* outcome of a point-valued call that an exception leaves
Raise(e) == <<e, e>>
Infinity == <<None, None>>

\* Python's floored // and % (the sign of % follows the divisor)
PyFloorDiv(x, y) == x \div y
PyMod(x, y) == x - y * (x \div y)

\* -------------------------------------------------------------- functions
\* f: the right-hand side of the curve equation, mod p
f(x, a, b, p) == PyMod(x * x * x + a * x + b, p)

\* gcd: extended Euclid, returns <<g, x, y>>
RECURSIVE gcd(_, _)
gcd(a, b) ==
    IF a = 0
    THEN <<b, 0, 1>>
    ELSE LET r == gcd(PyMod(b, a), a)
             g == r[1]
             y == r[2]
             x == r[3]
         IN  <<g, x - PyFloorDiv(b, a) * y, y>>

\* modular_inverse: None when g != 1, else x % p
modular_inverse(a, p) ==
    LET r == gcd(a, p)
        g == r[1]
        x == r[2]
    IN  IF g # 1 THEN None ELSE IntV(PyMod(x, p))

\* modular_division: (m * num) % p, or the initial x = 0 when there is no inverse
modular_division_mutant(num, den, p) ==
    LET m == modular_inverse(den, p)
    IN  IF m # None THEN PyMod(m.v + num, p) ELSE 0
modular_division(num, den, p) ==
    LET m == modular_inverse(den, p)
    IN  IF m # None THEN PyMod(m.v * num, p) ELSE 0

\* slope, tangent case: numerator and denominator
tangent_num(p, a, px) == PyMod(3 * (px * px) + a, p)
tangent_den(p, py) == PyMod(2 * py, p)
\* slope, secant case: numerator and denominator
secant_num(p, py, qy) == PyMod(py - qy, p)
secant_den(p, px, qx) == PyMod(px - qx, p)

\* slope, the final if/else: num % den raises when den = 0
slope_divide_plain_mutant(num, den, p) == PyMod(num, p)
slope_divide_plain(num, den, p) == PyMod(PyFloorDiv(num, den), p)
slope_divide(num, den, p) ==
    IF den = 0
    THEN ZeroDivisionError
    ELSE IF PyMod(num, den) # 0
         THEN IntV(modular_division(num, den, p))
         ELSE IntV(slope_divide_plain(num, den, p))

\* slope of the line through (px,py) and (qx,qy); coordinates are integers
slope(p, a, b, px, py, qx, qy) ==
    IF px = qx /\ py = qy
    THEN slope_divide(tangent_num(p, a, px), tangent_den(p, py), p)
    ELSE IF px = qx
         THEN None
         ELSE slope_divide(secant_num(p, py, qy), secant_den(p, px, qx), p)

\* add: point addition; coordinates are values (Int or None)
add(p, a, b, px, py, qx, qy) ==
    IF px = None
    THEN <<qx, qy>>
    ELSE IF qx = None
    THEN <<px, py>>
    ELSE LET dydx == slope(p, a, b, px.v, py.v, qx.v, qy.v)
         IN  IF IsExc(dydx)
             THEN Raise(dydx)
             ELSE IF dydx = None
             THEN <<None, None>>
             ELSE LET x == PyMod(dydx.v * dydx.v - px.v - qx.v, p)
                      y == PyMod(dydx.v * (px.v - x) - py.v, p)
                  IN  <<IntV(x), IntV(y)>>

\* multiply: the guard of the while loop
multiply_cond_mutant(n0, n) == n0 <= n
multiply_cond(n0, n) == n0 < n

\* multiply: the while loop from the state (n0, tempx, tempy)
RECURSIVE multiply_while(_, _, _, _, _, _, _, _, _)
multiply_while(p, a, b, n, px, py, n0, tempx, tempy) ==
    IF multiply_cond(n0, n)
    THEN LET t == add(p, a, b, tempx, tempy, px, py)
         IN  IF IsExc(t[1])
             THEN t
             ELSE multiply_while(p, a, b, n, px, py, n0 + 1, t[1], t[2])
    ELSE <<tempx, tempy>>

\* multiply: nP by repeated addition
multiply(p, a, b, n, px, py) ==
    IF n = 0
    THEN <<None, None>>
    ELSE multiply_while(p, a, b, n, px, py, 1, px, py)

\* ecdlp: the membership test of both points (coordinates are integers)
ecdlp_not_on_curve_mutant(p, a, b, px, py, qx, qy) ==
    f(px, a, b, p) # PyMod(py * py, p)
ecdlp_not_on_curve(p, a, b, px, py, qx, qy) ==
    \/ f(px, a, b, p) # PyMod(py * py, p)
    \/ f(qx, a, b, p) # PyMod(qy * qy, p)

\* ecdlp: the guard of the search loop
ecdlp_cond(p, tempx, tempy, qx, qy, n) ==
    (tempx # qx \/ tempy # qy) /\ n < p

\* ------------------------------------------------------------------ state
VARIABLES
    pc,            \* "idle", "loop" (inside ecdlp's while), "returned", "raised"
    fn,            \* the function that was called
    p, a, b,       \* the prime and the curve (a is also modular_inverse's a)
    px, py,        \* the point P
    qx, qy,        \* the point Q
    n,             \* multiply's argument n; ecdlp's local n
    tempx, tempy,  \* ecdlp's running point
    iters,         \* number of executions of ecdlp's loop body
    ret            \* the value returned, or the exception raised

vars == <<pc, fn, p, a, b, px, py, qx, qy, n, tempx, tempy, iters, ret>>

Field(q) == 0..(q - 1)
Affine(q) == {<<IntV(x), IntV(y)>> : x \in Field(q), y \in Field(q)}
Points(q) == Affine(q) \cup {Infinity}

Init ==
    /\ pc = "idle"
    /\ fn = "none"
    /\ p = 0 /\ a = 0 /\ b = 0
    /\ px = None /\ py = None
    /\ qx = None /\ qy = None
    /\ n = 0
    /\ tempx = None /\ tempy = None
    /\ iters = 0
    /\ ret = None

\* a point-valued call finishes: it returned t, or an exception left it
Finish(t) ==
    IF IsExc(t[1])
    THEN pc' = "raised" /\ ret' = t[1]
    ELSE pc' = "returned" /\ ret' = t

\* ecdlp, up to the first test of the while loop
ecdlp_call ==
    /\ pc = "idle"
    /\ \E q \in Primes : \E ca \in Field(q), cb \in Field(q) :
       \E P \in Points(q), Q \in Points(q) :
          /\ fn' = "ecdlp"
          /\ p' = q /\ a' = ca /\ b' = cb
          /\ px' = P[1] /\ py' = P[2]
          /\ qx' = Q[1] /\ qy' = Q[2]
          /\ iters' = 0
          /\ IF P[1] = None
             THEN /\ ret' = IntV(-1) /\ pc' = "returned"
                  /\ UNCHANGED <<n, tempx, tempy>>
             ELSE IF f(P[1].v, ca, cb, q) = PyMod(P[2].v * P[2].v, q) /\ Q[1] = None
             THEN \* f(None, ...) : None ** 3
                  /\ ret' = TypeError /\ pc' = "raised"
                  /\ UNCHANGED <<n, tempx, tempy>>
             ELSE IF ecdlp_not_on_curve(q, ca, cb, P[1].v, P[2].v, Q[1].v, Q[2].v)
             THEN /\ ret' = IntV(-1) /\ pc' = "returned"
                  /\ UNCHANGED <<n, tempx, tempy>>
             ELSE /\ n' = 1 /\ tempx' = P[1] /\ tempy' = P[2]
                  /\ pc' = "loop"
                  /\ UNCHANGED ret

\* ecdlp, one execution of the loop body
ecdlp_iterate ==
    /\ pc = "loop"
    /\ ecdlp_cond(p, tempx, tempy, qx, qy, n)
    /\ LET t == add(p, a, b, tempx, tempy, px, py)
       IN  IF IsExc(t[1])
           THEN /\ pc' = "raised" /\ ret' = t[1]
                /\ UNCHANGED <<tempx, tempy, n>>
           ELSE /\ tempx' = t[1] /\ tempy' = t[2]
                /\ n' = n + 1
                /\ UNCHANGED <<pc, ret>>
    /\ iters' = iters + 1
    /\ UNCHANGED <<fn, p, a, b, px, py, qx, qy>>

\* ecdlp, the loop guard fails: return n
ecdlp_return ==
    /\ pc = "loop"
    /\ ~ecdlp_cond(p, tempx, tempy, qx, qy, n)
    /\ ret' = IntV(n)
    /\ pc' = "returned"
    /\ UNCHANGED <<fn, p, a, b, px, py, qx, qy, n, tempx, tempy, iters>>

multiply_call ==
    /\ pc = "idle"
    /\ \E q \in Primes : \E ca \in Field(q), cb \in Field(q) :
       \E P \in Points(q), k \in 0..MaxN :
          /\ fn' = "multiply"
          /\ p' = q /\ a' = ca /\ b' = cb
          /\ px' = P[1] /\ py' = P[2]
          /\ n' = k
          /\ Finish(multiply(q, ca, cb, k, P[1], P[2]))
    /\ UNCHANGED <<qx, qy, tempx, tempy, iters>>

add_call ==
    /\ pc = "idle"
    /\ \E q \in Primes : \E ca \in Field(q), cb \in Field(q) :
       \E P \in Points(q), Q \in Points(q) :
          /\ fn' = "add"
          /\ p' = q /\ a' = ca /\ b' = cb
          /\ px' = P[1] /\ py' = P[2]
          /\ qx' = Q[1] /\ qy' = Q[2]
          /\ Finish(add(q, ca, cb, P[1], P[2], Q[1], Q[2]))
    /\ UNCHANGED <<n, tempx, tempy, iters>>

slope_call ==
    /\ pc = "idle"
    /\ \E q \in Primes : \E ca \in Field(q), cb \in Field(q) :
       \E P \in Affine(q), Q \in Affine(q) :
          /\ fn' = "slope"
          /\ p' = q /\ a' = ca /\ b' = cb
          /\ px' = P[1] /\ py' = P[2]
          /\ qx' = Q[1] /\ qy' = Q[2]
          /\ LET s == slope(q, ca, cb, P[1].v, P[2].v, Q[1].v, Q[2].v)
             IN  /\ ret' = s
                 /\ pc' = IF IsExc(s) THEN "raised" ELSE "returned"
    /\ UNCHANGED <<n, tempx, tempy, iters>>

modular_inverse_call ==
    /\ pc = "idle"
    /\ \E q \in Primes : \E ia \in (-MaxA)..MaxA :
          /\ fn' = "modular_inverse"
          /\ p' = q /\ a' = ia
          /\ ret' = modular_inverse(ia, q)
          /\ pc' = "returned"
    /\ UNCHANGED <<b, px, py, qx, qy, n, tempx, tempy, iters>>

Next ==
    \/ ecdlp_call
    \/ ecdlp_iterate
    \/ ecdlp_return
    \/ multiply_call
    \/ add_call
    \/ slope_call
    \/ modular_inverse_call

Spec == Init /\ [][Next]_vars

\* ------------------------------------------------------------- properties
\* membership of an affine point, as the curve equation states it
OnCurve(x, y) ==
    /\ IsInt(x) /\ IsInt(y)
    /\ PyMod(y.v * y.v, p) = PyMod(x.v * x.v * x.v + a * x.v + b, p)

\* a valid point: the point at infinity or an affine point on the curve
Valid(x, y) == <<x, y>> = Infinity \/ OnCurve(x, y)

InField(x) == IsInt(x) /\ x.v \in Field(p)

Done == pc \in {"returned", "raised"}

\* the field inverse of a non-zero residue d, by its defining equation
FieldInv(d) == CHOOSE x \in Field(p) : (d * x) % p = 1

\* a bound on the order of any curve group over F_p (Hasse: p + 1 + 2*sqrt(p))
MaxOrder == 2 * p + 1

\* C1: a positive result n of ecdlp satisfies multiply(p,a,b,n,px,py) = (qx,qy)
C1_RoundTrip ==
    (fn = "ecdlp" /\ pc = "returned" /\ ret.v > 0)
        => multiply(p, a, b, ret.v, px, py) = <<qx, qy>>

\* C2: when Q = k.P for some positive k, ecdlp returns the least such k
C2_Complete ==
    (/\ fn = "ecdlp" /\ Done
     /\ OnCurve(px, py) /\ OnCurve(qx, qy)
     /\ \E k \in 1..MaxOrder : multiply(p, a, b, k, px, py) = <<qx, qy>>)
        => /\ pc = "returned"
           /\ multiply(p, a, b, ret.v, px, py) = <<qx, qy>>
           /\ \A k \in 1..(ret.v - 1) : multiply(p, a, b, k, px, py) # <<qx, qy>>

\* C3: add(P,P) for an on-curve P with py = 0 returns the point at infinity
\* and raises no division error
C3_VerticalDoubling ==
    (/\ fn = "add" /\ Done
     /\ OnCurve(px, py) /\ py = IntV(0)
     /\ qx = px /\ qy = py)
        => pc = "returned" /\ ret = Infinity

\* C4: ecdlp returns -1 without entering the loop when P is the point at
\* infinity, or when P or Q is an affine pair off the curve
C4_Rejects ==
    (/\ fn = "ecdlp"
     /\ \/ px = None
        \/ (IsInt(px) /\ IsInt(py) /\ ~OnCurve(px, py))
        \/ (IsInt(qx) /\ IsInt(qy) /\ ~OnCurve(qx, qy)))
        => pc = "returned" /\ ret = IntV(-1) /\ iters = 0

C4_Witness ==
    /\ fn = "ecdlp" /\ pc = "returned" /\ ret = IntV(-1)
    /\ OnCurve(px, py)
    /\ IsInt(qx) /\ IsInt(qy) /\ ~OnCurve(qx, qy)

\* C5: add of two valid points is the point at infinity or an affine point
\* of the field that lies on the curve
C5_Closure ==
    (fn = "add" /\ Done /\ Valid(px, py) /\ Valid(qx, qy))
        => /\ pc = "returned"
           /\ \/ ret = Infinity
              \/ (InField(ret[1]) /\ InField(ret[2]) /\ OnCurve(ret[1], ret[2]))

\* the outcome of a finished point-valued call, as one value
Outcome == IF pc = "raised" THEN Raise(ret) ELSE ret

\* C6: add(P,Q) and add(Q,P) have the same outcome for valid points P, Q
C6_Commutative ==
    (fn = "add" /\ Done /\ Valid(px, py) /\ Valid(qx, qy))
        => Outcome = add(p, a, b, qx, qy, px, py)

\* the branch of slope's num % den test taken for P -> Q in the secant case
SecantPlain(x1, y1, x2, y2) ==
    PyMod(secant_num(p, y1, y2), secant_den(p, x1, x2)) = 0

C6_Witness ==
    /\ fn = "add" /\ pc = "returned"
    /\ OnCurve(px, py) /\ OnCurve(qx, qy)
    /\ px # qx
    /\ SecantPlain(px.v, py.v, qx.v, qy.v)
    /\ ~SecantPlain(qx.v, qy.v, px.v, py.v)
    /\ secant_den(p, px.v, qx.v) > 1
    /\ ret # Infinity

\* P added to itself k times with add; 0 times is the point at infinity
RECURSIVE Repeated(_)
Repeated(k) ==
    IF k = 0 THEN Infinity
    ELSE IF k = 1 THEN <<px, py>>
    ELSE LET r == Repeated(k - 1)
         IN  IF IsExc(r[1]) THEN r ELSE add(p, a, b, r[1], r[2], px, py)

\* C7: multiply(p,a,b,n,px,py) is P added to itself n times; n = 0 gives
\* the point at infinity
C7_Multiply ==
    (fn = "multiply" /\ Done /\ Valid(px, py))
        => /\ Outcome = Repeated(n)
           /\ (n = 0 => Outcome = Infinity)
           /\ (n = 1 => Outcome = <<px, py>>)

C7_Witness ==
    /\ fn = "multiply" /\ pc = "returned"
    /\ OnCurve(px, py)
    /\ n >= 3
    /\ ret # Infinity /\ ret # <<px, py>>

\* C8: for on-curve inputs the search loop runs at most p times and ecdlp
\* returns an integer
C8_Terminates ==
    (fn = "ecdlp" /\ OnCurve(px, py) /\ OnCurve(qx, qy))
        => /\ iters <= p
           /\ (Done => pc = "returned" /\ IsInt(ret))

\* the greatest common divisor of x and y (not both 0)
Abs(x) == IF x < 0 THEN -x ELSE x
Divides(d, x) == x % d = 0
GCD(x, y) ==
    CHOOSE d \in 1..(Abs(x) + Abs(y)) :
        /\ Divides(d, x) /\ Divides(d, y)
        /\ \A e \in 1..(Abs(x) + Abs(y)) : (Divides(e, x) /\ Divides(e, y)) => e <= d

\* C9: modular_inverse(a,p) is x in [0,p) with a*x = 1 (mod p), and is None
\* only when a = 0 (mod p); gcd(a,p) returns g = gcd(a,p) with a*x + p*y = g
C9_ModularInverse ==
    (fn = "modular_inverse" /\ Done)
        => /\ LET r == gcd(a, p)
              IN  r[1] = GCD(a, p) /\ a * r[2] + p * r[3] = r[1]
           /\ (ret = None => a % p = 0)
           /\ (ret # None => ret.v \in Field(p) /\ (a * ret.v) % p = 1)

\* numerator and denominator of the slope of the called pair, by case
SlopeNum ==
    IF px = qx /\ py = qy
    THEN (3 * px.v * px.v + a) % p
    ELSE (py.v - qy.v) % p
SlopeDen ==
    IF px = qx /\ py = qy
    THEN (2 * py.v) % p
    ELSE (px.v - qx.v) % p

\* C10: slope returns None exactly when px = qx and py # qy, and otherwise,
\* when the denominator is non-zero, the field quotient num * den^-1 mod p
C10_Slope ==
    (fn = "slope" /\ Done /\ OnCurve(px, py) /\ OnCurve(qx, qy))
        => /\ (ret = None) <=> (px = qx /\ py # qy)
           /\ (~(px = qx /\ py # qy) /\ SlopeDen # 0)
                 => ret = IntV((SlopeNum * FieldInv(SlopeDen)) % p)

C10_Witness ==
    /\ fn = "slope" /\ pc = "returned"
    /\ OnCurve(px, py) /\ OnCurve(qx, qy)
    /\ ~(px = qx /\ py # qy)
    /\ SlopeDen > 1 /\ SlopeNum > 0
    /\ SlopeNum % SlopeDen = 0

====
